---- MODULE Spec2Model ----
(***************************************************************************)
(* A model of choosable.py: the Character / Choice / Page / Book data      *)
(* model, its dictionary codec, the operations that mutate a Book, and     *)
(* the App's saves, Graphviz exports and page listings.                    *)
(*                                                                         *)
(* Character objects live in a heap (object id -> fields) because a Page   *)
(* holds a shared reference to its Character and rename_character mutates  *)
(* the object in place.  Pages and choices are only ever reached through   *)
(* the dict that owns them, so they are stored by value.                   *)
(***************************************************************************)
EXTENDS Integers, Sequences, FiniteSets, TLC

(* ------------------------------ bounds -------------------------------- *)

\* Number of operations performed on the book in one behaviour.
MaxSteps == 3
\* Number of Character objects that exist at the same time.
MaxObj == 3
\* Numbered pages are 1..MaxPageNum.
MaxPageNum == 2
\* Pages and choices of a book that is exported.
MaxExportPages == 2
MaxExportChoices == 2
\* Numbered pages and intermediates of a book that is listed are
\* 0..MaxListNum.
MaxListNum == 3

(* ------------------------------ values -------------------------------- *)

\* Python's None, as the value of a missing Character reference.
None == 0

\* A page id is an int or a str.  IntId(n) is the int n, StrId(k) the k-th
\* label in lexicographic order.
IntId(n) == <<"int", n>>
StrId(k) == <<"str", k>>
NoId == <<"none", 0>>

PageIds == {IntId(n) : n \in 1..MaxPageNum} \cup {StrId(1)}
Names == {"Alice", "Bob", "Carol"}
Summaries == {"s1", "s2"}
Colors == {"white", "black"}

NoExc == ""
EmptyMap == [x \in {} |-> TRUE]

\* dict helpers: d with key k removed / set.
DictDel(d, k) == [x \in DOMAIN d \ {k} |-> d[x]]
DictSet(d, k, v) == [x \in DOMAIN d \cup {k} |-> IF x = k THEN v ELSE d[x]]

\* Python 2 ordering of page ids: every int before every str, ints by
\* value, strs lexicographically.
IdLess(a, b) ==
    \/ a[1] = "int" /\ b[1] = "str"
    \/ a[1] = b[1] /\ a[2] < b[2]

\* sorted(): the elements of S in ascending order of less.
RECURSIVE SortedIds(_)
SortedIds(S) ==
    IF S = {} THEN <<>>
    ELSE LET m == CHOOSE x \in S : \A y \in S \ {x} : IdLess(x, y)
         IN <<m>> \o SortedIds(S \ {m})

Range(s) == {s[i] : i \in DOMAIN s}

(* ----------------------------- Character ------------------------------ *)

Character(name) == [name |-> name, fillcolor |-> "white", fontcolor |-> "black"]

Character_to_dict(c) ==
    [name |-> c.name,
     graphviz_fillcolor |-> c.fillcolor,
     graphviz_fontcolor |-> c.fontcolor]

\* Character_from_dict with the two colour fields read crosswise.
Character_from_dict_swapped(chardict) ==
    [name |-> chardict.name,
     fillcolor |-> chardict.graphviz_fontcolor,
     fontcolor |-> chardict.graphviz_fillcolor]

Character_from_dict(chardict) ==
    [name |-> chardict.name,
     fillcolor |-> chardict.graphviz_fillcolor,
     fontcolor |-> chardict.graphviz_fontcolor]

(* ------------------------------- Choice ------------------------------- *)

Choice(target, summary) == [target |-> target, summary |-> summary]

Choice_to_dict(c) == [target |-> c.target, summary |-> c.summary]

Choice_from_dict(choicedict) == Choice(choicedict.target, choicedict.summary)

(* -------------------------------- Page -------------------------------- *)

Page(pagenum, character, summary) ==
    [pagenum |-> pagenum, character |-> character, summary |-> summary,
     canonical |-> FALSE, ending |-> FALSE, choices |-> EmptyMap]

\* The result of a Page method: the page afterwards and the exception.
PageResult(page, exc) == [page |-> page, exc |-> exc]

\* add_choice_obj without the test for an existing target.
add_choice_obj_overwrite(page, choice) ==
    PageResult([page EXCEPT !.choices = DictSet(@, choice.target, choice)], NoExc)

add_choice_obj(page, choice) ==
    IF choice.target \in DOMAIN page.choices
    THEN PageResult(page, "Exception")
    ELSE PageResult([page EXCEPT !.choices = DictSet(@, choice.target, choice)],
                    NoExc)

add_choice(page, target, summary) == add_choice_obj(page, Choice(target, summary))

\* A delete_choice that empties the dict of choices.
delete_choice_clear(page, target) ==
    IF target \notin DOMAIN page.choices
    THEN PageResult(page, "KeyError")
    ELSE PageResult([page EXCEPT !.choices = EmptyMap], NoExc)

\* Page.delete_choice: del self.choices[target].
delete_choice(page, target) ==
    IF target \notin DOMAIN page.choices
    THEN PageResult(page, "KeyError")
    ELSE PageResult([page EXCEPT !.choices = DictDel(@, target)], NoExc)

toggle_canonical(page) == [page EXCEPT !.canonical = ~@]

toggle_ending(page) == [page EXCEPT !.ending = ~@]

choices_sorted(page) ==
    LET keys == SortedIds(DOMAIN page.choices)
    IN [i \in DOMAIN keys |-> page.choices[keys[i]]]

(* -------------------------------- Book -------------------------------- *)

\* Book.__init__: a title and three empty dicts.
Book(title) ==
    [title |-> title, characters |-> EmptyMap, pages |-> EmptyMap,
     intermediates |-> EmptyMap]

\* The result of a Book method: the Character heap and the book afterwards,
\* and the exception raised (NoExc when the method returns).
BookResult(h, b, exc) == [heap |-> h, book |-> b, exc |-> exc]

\* A pages_sorted that lists the pages in the order of their insertion
\* (here: string ids ahead of the integers).
pages_sorted_unsorted(b) ==
    LET strs == SortedIds({k \in DOMAIN b.pages : k[1] = "str"})
        ints == SortedIds({k \in DOMAIN b.pages : k[1] = "int"})
        keys == strs \o ints
    IN [i \in DOMAIN keys |-> b.pages[keys[i]]]

pages_sorted(b) ==
    LET keys == SortedIds(DOMAIN b.pages)
    IN [i \in DOMAIN keys |-> b.pages[keys[i]]]

intermediates_sorted(b) == SortedIds(DOMAIN b.intermediates)

add_character_obj(h, b, char) ==
    IF h[char].name \in DOMAIN b.characters
    THEN BookResult(h, b, "Exception")
    ELSE BookResult(h, [b EXCEPT !.characters = DictSet(@, h[char].name, char)],
                    NoExc)

\* Character(name) allocates the next object; when add_character_obj raises,
\* nobody holds the new object and it is dropped.
add_character(h, b, name) ==
    LET char == Cardinality(DOMAIN h) + 1
        h1 == DictSet(h, char, Character(name))
        r == add_character_obj(h1, b, char)
    IN IF r.exc = NoExc THEN r ELSE BookResult(h, b, r.exc)

\* rename_character without its own test of newname: the refusal comes from
\* add_character_obj, after the old key is gone and the name is changed.
rename_character_unchecked(h, b, char, newname) ==
    IF h[char].name \notin DOMAIN b.characters
    THEN BookResult(h, b, "KeyError")
    ELSE LET b1 == [b EXCEPT !.characters = DictDel(@, h[char].name)]
             h1 == [h EXCEPT ![char].name = newname]
         IN add_character_obj(h1, b1, char)

\* rename_character without the del of the old key.
rename_character_keepold(h, b, char, newname) ==
    IF newname \in DOMAIN b.characters /\ b.characters[newname] # char
    THEN BookResult(h, b, "Exception")
    ELSE LET h1 == [h EXCEPT ![char].name = newname]
         IN BookResult(h1, [b EXCEPT !.characters = DictSet(@, newname, char)], NoExc)

rename_character(h, b, char, newname) ==
    IF newname \in DOMAIN b.characters /\ b.characters[newname] # char
    THEN BookResult(h, b, "Exception")
    ELSE IF h[char].name \notin DOMAIN b.characters
    THEN BookResult(h, b, "KeyError")
    ELSE LET b1 == [b EXCEPT !.characters = DictDel(@, h[char].name)]
             h1 == [h EXCEPT ![char].name = newname]
         IN add_character_obj(h1, b1, char)

\* The exception of the ownership loop of delete_character: the first page,
\* in sorted order, that stops the loop decides it.
OwnerScan(h, b, charname) ==
    LET ps == pages_sorted(b)
        stops == {i \in DOMAIN ps :
                     \/ ps[i].character = None
                     \/ h[ps[i].character].name = charname}
    IN IF stops = {} THEN NoExc
       ELSE LET i == CHOOSE j \in stops : \A k \in stops : j <= k
            IN IF ps[i].character = None THEN "AttributeError" ELSE "Exception"

delete_character(h, b, charname) ==
    IF charname \notin DOMAIN b.characters
    THEN BookResult(h, b, "Exception")
    ELSE IF OwnerScan(h, b, charname) # NoExc
    THEN BookResult(h, b, OwnerScan(h, b, charname))
    ELSE BookResult(h, [b EXCEPT !.characters = DictDel(@, charname)], NoExc)

\* add_page_obj without the test for an existing page.
add_page_obj_overwrite(h, b, page) ==
    BookResult(h, [b EXCEPT !.pages = DictSet(@, page.pagenum, page)], NoExc)

add_page_obj(h, b, page) ==
    IF page.pagenum \in DOMAIN b.pages
    THEN BookResult(h, b, "Exception")
    ELSE BookResult(h, [b EXCEPT !.pages = DictSet(@, page.pagenum, page)], NoExc)

add_page(h, b, pagenum, character, summary) ==
    add_page_obj(h, b, Page(pagenum, character, summary))

add_intermediate(h, b, pagenum) ==
    BookResult(h, [b EXCEPT !.intermediates = DictSet(@, pagenum, TRUE)], NoExc)

\* delete_intermediate without the membership test: a bare del.
delete_intermediate_strict(h, b, pagenum) ==
    IF pagenum \in DOMAIN b.intermediates
    THEN BookResult(h, [b EXCEPT !.intermediates = DictDel(@, pagenum)], NoExc)
    ELSE BookResult(h, b, "KeyError")

delete_intermediate(h, b, pagenum) ==
    IF pagenum \in DOMAIN b.intermediates
    THEN BookResult(h, [b EXCEPT !.intermediates = DictDel(@, pagenum)], NoExc)
    ELSE BookResult(h, b, NoExc)

has_intermediate(b, pagenum) == pagenum \in DOMAIN b.intermediates

\* delete_page that also drops the choices of other pages to the page.
delete_page_cascade(h, b, pagenum) ==
    IF pagenum \notin DOMAIN b.pages
    THEN BookResult(h, b, "KeyError")
    ELSE BookResult(h,
            [b EXCEPT !.pages =
                [q \in DOMAIN b.pages \ {pagenum} |->
                    [b.pages[q] EXCEPT !.choices = DictDel(@, pagenum)]]],
            NoExc)

delete_page(h, b, pagenum) ==
    IF pagenum \notin DOMAIN b.pages
    THEN BookResult(h, b, "KeyError")
    ELSE BookResult(h, [b EXCEPT !.pages = DictDel(@, pagenum)], NoExc)

\* sorted(self.characters.keys()): names in lexicographic order.
NameOrder == <<"Alice", "Bob", "Carol">>
NameRank(n) == CHOOSE i \in DOMAIN NameOrder : NameOrder[i] = n

RECURSIVE SortedNames(_)
SortedNames(S) ==
    IF S = {} THEN <<>>
    ELSE LET m == CHOOSE x \in S : \A y \in S : NameRank(x) <= NameRank(y)
         IN <<m>> \o SortedNames(S \ {m})

\* characters_sorted, as the sequence of Character objects (heap ids).
characters_sorted(b) ==
    LET keys == SortedNames(DOMAIN b.characters)
    IN [i \in DOMAIN keys |-> b.characters[keys[i]]]

(* ------------------------------- codec -------------------------------- *)

\* Page.to_dict.  The caller has checked that the page has a Character.
Page_to_dict(h, page) ==
    [pagenum |-> page.pagenum,
     character |-> h[page.character].name,
     summary |-> page.summary,
     canonical |-> page.canonical,
     ending |-> page.ending,
     choices |-> [t \in {page.choices[k].target : k \in DOMAIN page.choices} |->
                    Choice_to_dict(page.choices[
                        CHOOSE k \in DOMAIN page.choices : page.choices[k].target = t])]]

\* Book.get_savedict: [dict, exc].  The characters and pages are re-keyed by
\* character.name and page.pagenum.
get_savedict(h, b) ==
    IF Cardinality(DOMAIN b.characters) = 0 THEN [dict |-> EmptyMap, exc |-> "Exception"]
    ELSE IF Cardinality(DOMAIN b.pages) = 0 THEN [dict |-> EmptyMap, exc |-> "Exception"]
    ELSE IF \E p \in DOMAIN b.pages : b.pages[p].character = None
    THEN [dict |-> EmptyMap, exc |-> "AttributeError"]
    ELSE [dict |->
            [book |-> [title |-> b.title],
             characters |->
                [n \in {h[b.characters[k]].name : k \in DOMAIN b.characters} |->
                    Character_to_dict(h[b.characters[
                        CHOOSE k \in DOMAIN b.characters : h[b.characters[k]].name = n]])],
             pages |->
                [n \in {b.pages[k].pagenum : k \in DOMAIN b.pages} |->
                    Page_to_dict(h, b.pages[
                        CHOOSE k \in DOMAIN b.pages : b.pages[k].pagenum = n])],
             intermediates |-> intermediates_sorted(b)],
          exc |-> NoExc]

\* A reader that accepts a page whose character is not in the book and
\* leaves the page without one.
Page_from_dict_nocheck(pagedict, characters) ==
    LET page == [pagenum |-> pagedict.pagenum,
                 character |-> IF pagedict.character \in DOMAIN characters
                               THEN characters[pagedict.character] ELSE None,
                 summary |-> pagedict.summary,
                 canonical |-> pagedict.canonical,
                 ending |-> pagedict.ending,
                 choices |-> EmptyMap]
        cds == pagedict.choices
        targets == {cds[k].target : k \in DOMAIN cds}
    IN IF \E k1, k2 \in DOMAIN cds : k1 # k2 /\ cds[k1].target = cds[k2].target
       THEN PageResult(page, "Exception")
       ELSE PageResult(
               [page EXCEPT !.choices =
                   [t \in targets |->
                       Choice_from_dict(cds[CHOOSE k \in DOMAIN cds : cds[k].target = t])]],
               NoExc)

\* Page.from_dict: [page, exc]; characters is the new book's name -> object dict.
Page_from_dict(pagedict, characters) ==
    IF pagedict.character \notin DOMAIN characters
    THEN PageResult(Page(pagedict.pagenum, None, pagedict.summary), "Exception")
    ELSE LET page == [pagenum |-> pagedict.pagenum,
                      character |-> characters[pagedict.character],
                      summary |-> pagedict.summary,
                      canonical |-> pagedict.canonical,
                      ending |-> pagedict.ending,
                      choices |-> EmptyMap]
             cds == pagedict.choices
             targets == {cds[k].target : k \in DOMAIN cds}
         IN IF \E k1, k2 \in DOMAIN cds : k1 # k2 /\ cds[k1].target = cds[k2].target
            THEN PageResult(page, "Exception")
            ELSE PageResult(
                    [page EXCEPT !.choices =
                        [t \in targets |->
                            Choice_from_dict(cds[CHOOSE k \in DOMAIN cds : cds[k].target = t])]],
                    NoExc)

\* A loader that takes a file without the field for one that lists page 1.
load_intermediates_default(savedict) ==
    IF "intermediates" \in DOMAIN savedict
    THEN [x \in Range(savedict.intermediates) |-> TRUE]
    ELSE [x \in {IntId(1)} |-> TRUE]

\* The intermediates of a saved dictionary; the field is optional.
load_intermediates(savedict) ==
    IF "intermediates" \in DOMAIN savedict
    THEN [x \in Range(savedict.intermediates) |-> TRUE]
    ELSE EmptyMap

\* Book.load_from_dict: a new book with new Character objects, numbered in
\* name order.
load_from_dict(savedict) ==
    IF "book" \notin DOMAIN savedict \/ "title" \notin DOMAIN savedict.book
    THEN BookResult(EmptyMap, Book(""), "KeyError")
    ELSE
    LET b0 == Book(savedict.book.title)
        b1 == [b0 EXCEPT !.intermediates = load_intermediates(savedict)]
    IN IF "characters" \notin DOMAIN savedict THEN BookResult(EmptyMap, b1, "KeyError")
       ELSE
       LET cds == savedict.characters
           names == {cds[k].name : k \in DOMAIN cds}
           obj(n) == Cardinality({m \in names : NameRank(m) <= NameRank(n)})
           h == [o \in 1..Cardinality(names) |->
                    Character_from_dict(
                        cds[CHOOSE k \in DOMAIN cds : obj(cds[k].name) = o])]
           b2 == [b1 EXCEPT !.characters = [n \in names |-> obj(n)]]
       IN IF \E k1, k2 \in DOMAIN cds : k1 # k2 /\ cds[k1].name = cds[k2].name
          THEN BookResult(EmptyMap, b1, "Exception")
          ELSE IF "pages" \notin DOMAIN savedict THEN BookResult(h, b2, "KeyError")
          ELSE
          LET pds == savedict.pages
              loaded(k) == Page_from_dict(pds[k], b2.characters)
              nums == {pds[k].pagenum : k \in DOMAIN pds}
          IN IF \E k \in DOMAIN pds : loaded(k).exc # NoExc
             THEN BookResult(h, b2, "Exception")
             ELSE IF \E k1, k2 \in DOMAIN pds : k1 # k2 /\ pds[k1].pagenum = pds[k2].pagenum
             THEN BookResult(h, b2, "Exception")
             ELSE BookResult(h,
                    [b2 EXCEPT !.pages =
                        [n \in nums |->
                            loaded(CHOOSE k \in DOMAIN pds : pds[k].pagenum = n).page]],
                    NoExc)

\* No Book exists before load_from_dict returns one.
NoBook == Book("")

(* -------------------------------- files ------------------------------- *)

\* A file name is <<stem, extension>>: "book.yaml" is <<"book", "yaml">>.
\* NoPath is the filename None.
NoPath == <<"", "">>
Paths == {<<"book", "yaml">>, <<"book", "dot">>}

\* What a file holds: the YAML dump of a savedict, or a DOT graph.
YamlFile(dict) == [kind |-> "yaml", dict |-> dict]
DotFile(name, nodes, edges) ==
    [kind |-> "dot", name |-> name, nodes |-> nodes, edges |-> edges]

FileResult(d, exc) == [disk |-> d, exc |-> exc]

\* A save that opens the file for writing, which empties it, before it
\* builds the dictionary.
Book_save_openfirst(h, b, own, fname, d) ==
    IF fname = NoPath /\ own = NoPath THEN FileResult(d, "Exception")
    ELSE LET target == IF fname = NoPath THEN own ELSE fname
             s == get_savedict(h, b)
         IN IF s.exc # NoExc
            THEN FileResult(DictSet(d, target, YamlFile(EmptyMap)), s.exc)
            ELSE FileResult(DictSet(d, target, YamlFile(s.dict)), NoExc)

\* Book.save(filename): own is the book's filename, d the files on disk.
Book_save(h, b, own, fname, d) ==
    IF fname = NoPath /\ own = NoPath THEN FileResult(d, "Exception")
    ELSE LET target == IF fname = NoPath THEN own ELSE fname
             s == get_savedict(h, b)
         IN IF s.exc # NoExc THEN FileResult(d, s.exc)
            ELSE FileResult(DictSet(d, target, YamlFile(s.dict)), NoExc)

\* Book.load(filename): a missing file and a file that is not a YAML dump
\* of a savedict raise.
Book_load(d, fname) ==
    IF fname \notin DOMAIN d THEN BookResult(EmptyMap, NoBook, "IOError")
    ELSE IF d[fname].kind # "yaml" THEN BookResult(EmptyMap, NoBook, "Exception")
    ELSE load_from_dict(d[fname].dict)

(* ------------------------------- export ------------------------------- *)

\* The characters of a summary text.
Chars(s) ==
    CASE s = "s1" -> <<"s", "1">>
      [] s = "s2" -> <<"s", "2">>
      [] s = "a<b>" -> <<"a", "<", "b", ">">>
      [] s = "say \"x\"" -> <<"s", "a", "y", " ", "\"", "x", "\"">>

\* str.replace for a one-character old: every occurrence becomes new.
RECURSIVE Replace(_, _, _)
Replace(text, old, new) ==
    IF text = <<>> THEN <<>>
    ELSE (IF Head(text) = old THEN new ELSE <<Head(text)>>)
            \o Replace(Tail(text), old, new)

RECURSIVE Flatten(_)
Flatten(seqs) == IF seqs = <<>> THEN <<>> ELSE Head(seqs) \o Flatten(Tail(seqs))

\* The (page, choice) pairs in the order of the nested loops over
\* pages_sorted() and choices_sorted().
ChoicePairs(b) ==
    LET ps == pages_sorted(b)
    IN Flatten([i \in DOMAIN ps |->
                  LET cs == choices_sorted(ps[i])
                  IN [j \in DOMAIN cs |-> [page |-> ps[i], choice |-> cs[j]]]])

\* A page label that leaves out the canonical emphasis on an ending.
VisitedLabel_endingplain(h, page) ==
    [form |-> "quoted",
     pagenum |-> page.pagenum,
     text |-> Replace(Chars(page.summary), "\"", <<"\\", "\"">>),
     shape |-> IF page.canonical /\ ~page.ending THEN "box" ELSE "",
     fontcolor |-> IF page.ending THEN "white" ELSE h[page.character].fontcolor,
     fillcolor |-> IF page.ending THEN "azure4" ELSE h[page.character].fillcolor,
     style |-> IF page.canonical /\ ~page.ending
               THEN <<"filled", "bold">> ELSE <<"filled">>]

\* The node text of a page: label="Page <pagenum> - <text>", then shape,
\* colours and style.
VisitedLabel(h, page) ==
    [form |-> "quoted",
     pagenum |-> page.pagenum,
     text |-> Replace(Chars(page.summary), "\"", <<"\\", "\"">>),
     shape |-> IF page.canonical THEN "box" ELSE "",
     fontcolor |-> IF page.ending THEN "white" ELSE h[page.character].fontcolor,
     fillcolor |-> IF page.ending THEN "azure4" ELSE h[page.character].fillcolor,
     style |-> IF page.canonical THEN <<"filled", "bold">> ELSE <<"filled">>]

\* The node text of a target without a page:
\* label=<<i>(Page <target> - <text>)</i>>.
UnvisitedLabel(choice) ==
    [form |-> "italic",
     pagenum |-> choice.target,
     text |-> Replace(Replace(Chars(choice.summary), ">", <<>>), "<", <<>>)]

\* A test that takes every target for one without a page.
IsUnknown_any(b, target) == TRUE

\* A test that takes a target marked as an intermediate for a known one.
IsUnknown_unmarked(b, target) ==
    target \notin DOMAIN b.pages /\ target \notin DOMAIN b.intermediates

\* choice.target not in book.pages
IsUnknown(b, target) == target \notin DOMAIN b.pages

\* An assignment that keeps the label a target already has.
SetUnknown_keepfirst(unknown, choice) ==
    IF choice.target \in DOMAIN unknown THEN unknown
    ELSE DictSet(unknown, choice.target, UnvisitedLabel(choice))

\* unknown_pages[choice.target] = ...
SetUnknown(unknown, choice) ==
    DictSet(unknown, choice.target, UnvisitedLabel(choice))

\* The loop that fills unknown_pages.
RECURSIVE UnknownPages(_, _, _)
UnknownPages(b, pairs, unknown) ==
    IF pairs = <<>> THEN unknown
    ELSE UnknownPages(b, Tail(pairs),
            IF IsUnknown(b, Head(pairs).choice.target)
            THEN SetUnknown(unknown, Head(pairs).choice)
            ELSE unknown)

\* all_pages: the label of every page, then those of unknown_pages.
AllPages(h, b) ==
    LET unknown == UnknownPages(b, ChoicePairs(b), EmptyMap)
    IN [p \in DOMAIN b.pages \cup DOMAIN unknown |->
           IF p \in DOMAIN unknown THEN unknown[p]
           ELSE VisitedLabel(h, b.pages[p])]

\* An output with the pages first and the other targets after them.
DotNodes_blocks(all) ==
    LET first == SortedIds({p \in DOMAIN all : all[p].form = "quoted"})
        rest == SortedIds({p \in DOMAIN all : all[p].form = "italic"})
        keys == first \o rest
    IN [i \in DOMAIN keys |-> [pagenum |-> keys[i], label |-> all[keys[i]]]]

\* The node lines: for pagenum in sorted(all_pages.keys()).
DotNodes(all) ==
    LET keys == SortedIds(DOMAIN all)
    IN [i \in DOMAIN keys |-> [pagenum |-> keys[i], label |-> all[keys[i]]]]

\* Edge lines that leave out the choices whose target has no page.
DotEdges_known(b) ==
    LET pairs == ChoicePairs(b)
        known(pc) == pc.choice.target \in DOMAIN b.pages
        kept == SelectSeq(pairs, known)
    IN [i \in DOMAIN kept |->
           [from |-> kept[i].page.pagenum, to |-> kept[i].choice.target]]

\* The edge lines: "<pagenum> -> <target>" for every choice of every page.
DotEdges(b) ==
    LET pairs == ChoicePairs(b)
    IN [i \in DOMAIN pairs |->
           [from |-> pairs[i].page.pagenum, to |-> pairs[i].choice.target]]

\* prompt_yn with default True: an empty answer is yes.
prompt_yn(response) == IF response = "" THEN TRUE ELSE response = "y"

ExportResult(d, exc, ret) == [disk |-> d, exc |-> exc, ret |-> ret]

\* App.export_dot(dot_filename); response answers the overwrite prompt.
\* The file is opened, and its head written, before the labels are built:
\* a page that is no ending and has no character stops the export there.
export_dot(h, b, d, dot_filename, response) ==
    IF dot_filename \in DOMAIN d /\ ~prompt_yn(response)
    THEN ExportResult(d, NoExc, FALSE)
    ELSE IF \E p \in DOMAIN b.pages :
                ~b.pages[p].ending /\ b.pages[p].character = None
    THEN ExportResult(DictSet(d, dot_filename, DotFile(dot_filename[1], <<>>, <<>>)),
                      "AttributeError", FALSE)
    ELSE ExportResult(DictSet(d, dot_filename,
                              DotFile(dot_filename[1], DotNodes(AllPages(h, b)),
                                      DotEdges(b))),
                      NoExc, TRUE)

(* ------------------------------ list_pages ---------------------------- *)

\* The while loop of list_pages: the position in intermediates after those
\* listed ahead of the page (1 is the first position).
RECURSIVE InterBefore(_, _, _)
InterBefore(intermediates, cur, pagenum) ==
    IF cur <= Len(intermediates) /\ IdLess(intermediates[cur], pagenum)
    THEN InterBefore(intermediates, cur + 1, pagenum)
    ELSE cur

InterLine(pagenum) == [kind |-> "intermediate", pagenum |-> pagenum]

PageLine(h, page) ==
    [kind |-> "page", pagenum |-> page.pagenum, summary |-> page.summary,
     name |-> h[page.character].name,
     ending |-> page.ending, canonical |-> page.canonical]

\* The listing loop from page i on, and the loop after it, which prints
\* intermediates[cur_intermediate] once for each intermediate left. A page
\* without a character ends the listing with an AttributeError.
RECURSIVE ListLoop(_, _, _, _, _)
ListLoop(h, ps, i, intermediates, cur) ==
    IF i > Len(ps)
    THEN [lines |-> [k \in 1..(Len(intermediates) - cur + 1) |->
                        InterLine(intermediates[cur])],
          exc |-> NoExc]
    ELSE LET nxt == InterBefore(intermediates, cur, ps[i].pagenum)
             ahead == [k \in 1..(nxt - cur) |-> InterLine(intermediates[cur + k - 1])]
         IN IF ps[i].character = None
            THEN [lines |-> ahead, exc |-> "AttributeError"]
            ELSE LET r == ListLoop(h, ps, i + 1, intermediates, nxt)
                 IN [lines |-> ahead \o <<PageLine(h, ps[i])>> \o r.lines,
                     exc |-> r.exc]

\* The counts printed under the listing.
ListStats(h, b) ==
    LET names == {h[b.pages[p].character].name : p \in DOMAIN b.pages}
    IN [total |-> Cardinality(DOMAIN b.pages),
        canon |-> Cardinality({p \in DOMAIN b.pages : b.pages[p].canonical}),
        ending |-> Cardinality({p \in DOMAIN b.pages : b.pages[p].ending}),
        intermediates |-> Cardinality(DOMAIN b.intermediates),
        char_counts |->
            [n \in names |->
                Cardinality({p \in DOMAIN b.pages : h[b.pages[p].character].name = n})]]

\* The integer ids among the pages and the intermediates.
IntKeys(b) ==
    {x[2] : x \in {y \in DOMAIN b.pages \cup DOMAIN b.intermediates : y[1] = "int"}}

MissingResult(list, exc) == [list |-> list, exc |-> exc]

\* del list[index]: a negative index counts from the end, an index outside
\* the list raises.
ListDel(list, index) ==
    LET pos == IF index < 0 THEN index + Len(list) ELSE index
    IN IF pos < 0 \/ pos >= Len(list) THEN MissingResult(list, "IndexError")
       ELSE MissingResult([k \in 1..(Len(list) - 1) |->
                              IF k <= pos THEN list[k] ELSE list[k + 1]],
                          NoExc)

\* for page in reversed(pages): del total_pages[page-1]
RECURSIVE MissingLoop(_, _)
MissingLoop(total_pages, pages) ==
    IF pages = {} THEN MissingResult(total_pages, NoExc)
    ELSE LET page == CHOOSE x \in pages : \A y \in pages : y <= x
             r == ListDel(total_pages, page - 1)
         IN IF r.exc # NoExc THEN r
            ELSE MissingLoop(r.list, pages \ {page})

\* The missing pages: pages[-1] raises when no id is an integer.
missing_pages(b) ==
    LET pages == IntKeys(b)
        last_page == CHOOSE x \in pages : \A y \in pages : y <= x
    IN IF pages = {} THEN MissingResult(<<>>, "IndexError")
       ELSE MissingLoop([k \in 1..last_page |-> k], pages)

\* The longest list of missing pages that is printed.
MissingLimit == 20

\* App.list_pages: what it prints, and the exception that ends it.
list_pages(h, b) ==
    LET listing == ListLoop(h, pages_sorted(b), 1, intermediates_sorted(b), 1)
        m == missing_pages(b)
    IN IF listing.exc # NoExc
       THEN [lines |-> listing.lines, exc |-> listing.exc]
       ELSE IF m.exc # NoExc
       THEN [lines |-> listing.lines, stats |-> ListStats(h, b), exc |-> m.exc]
       ELSE IF Len(m.list) < MissingLimit
       THEN [lines |-> listing.lines, stats |-> ListStats(h, b),
             missing |-> m.list, exc |-> NoExc]
       ELSE [lines |-> listing.lines, stats |-> ListStats(h, b), exc |-> NoExc]

(* ------------------------------ the driver ---------------------------- *)

\* The App between two commands: the Character objects, the book, the
\* current page and character, and the error the last command printed
\* ("" when it printed none).
AppState(h, b, page, char, msg) ==
    [heap |-> h, book |-> b, cur_page |-> page, cur_char |-> char, msg |-> msg]

\* App.set_page for a page of the book: the page's character becomes the
\* current one.
set_page(a, pagenum) ==
    AppState(a.heap, a.book, pagenum, a.book.pages[pagenum].character, "")

\* A create_page that makes the new page without a character.
create_page_nochar(a, pagenum, summary) ==
    IF summary = "" THEN [a EXCEPT !.msg = ""]
    ELSE LET r == add_page(a.heap, a.book, pagenum, None, summary)
         IN AppState(r.heap, r.book, pagenum, a.cur_char, "")

\* App.create_page for an id that is no page: an empty summary cancels, a
\* summary makes the page, owned by the current character, the current one.
create_page(a, pagenum, summary) ==
    IF summary = "" THEN [a EXCEPT !.msg = ""]
    ELSE LET r == add_page(a.heap, a.book, pagenum, a.cur_char, summary)
         IN AppState(r.heap, r.book, pagenum, a.cur_char, "")

\* A page_switch without the test for an intermediate id.
page_switch_anyid(a, pagenum, summary) ==
    IF pagenum \in DOMAIN a.book.pages THEN set_page(a, pagenum)
    ELSE create_page(a, pagenum, summary)

\* App.page_switch(pagenum); summary answers the prompt of create_page.
page_switch(a, pagenum, summary) ==
    IF has_intermediate(a.book, pagenum) THEN [a EXCEPT !.msg = "intermediate"]
    ELSE IF pagenum \in DOMAIN a.book.pages THEN set_page(a, pagenum)
    ELSE create_page(a, pagenum, summary)

\* The answer to a colour prompt: empty selects the default.
ColorAnswer(typed, default) == IF typed = "" THEN default ELSE typed

\* pick_character, answer 'n': a new character with its colours becomes the
\* current one; an empty name cancels and a name in use is refused.
new_character(a, newname, fontcolor, fillcolor) ==
    IF newname = "" THEN [a EXCEPT !.msg = ""]
    ELSE LET r == add_character(a.heap, a.book, newname)
             char == r.book.characters[newname]
         IN IF r.exc # NoExc THEN [a EXCEPT !.msg = "add"]
            ELSE AppState([r.heap EXCEPT
                              ![char].fontcolor = ColorAnswer(fontcolor, "black"),
                              ![char].fillcolor = ColorAnswer(fillcolor, "white")],
                          r.book, a.cur_page, char, "")

\* pick_character, a number or an empty answer (charnum 0), which selects
\* the starred entry: that of the current character, else the first.
pick_character(a, charnum) ==
    LET clist == SortedNames(DOMAIN a.book.characters)
        starred == {i \in DOMAIN clist :
                       IF a.cur_char # None THEN clist[i] = a.heap[a.cur_char].name
                       ELSE i = 1}
        default == IF starred = {} THEN 1 ELSE CHOOSE i \in starred : TRUE
        num == IF charnum = 0 THEN default ELSE charnum
    IN IF num < 1 \/ num > Len(clist) THEN [a EXCEPT !.msg = "number"]
       ELSE [a EXCEPT !.cur_char = a.book.characters[clist[num]], !.msg = ""]

\* App.edit_character for entry charnum of the list: an empty answer keeps
\* the name or the colour; the name of another character is refused before
\* the colours are set.
edit_character(a, charnum, name, fontcolor, fillcolor) ==
    LET clist == characters_sorted(a.book)
        char == clist[charnum]
        newname == IF name = "" THEN a.heap[char].name ELSE name
        h1 == [a.heap EXCEPT
                  ![char].fontcolor = ColorAnswer(fontcolor, @),
                  ![char].fillcolor = ColorAnswer(fillcolor, @)]
        r == rename_character(h1, a.book, char, newname)
    IN IF charnum < 1 \/ charnum > Len(clist) THEN [a EXCEPT !.msg = "number"]
       ELSE IF \E i \in DOMAIN clist :
                  clist[i] # char /\ a.heap[clist[i]].name = newname
       THEN [a EXCEPT !.msg = "name"]
       ELSE IF newname = a.heap[char].name
       THEN [a EXCEPT !.heap = h1, !.msg = ""]
       ELSE IF r.exc # NoExc THEN [a EXCEPT !.heap = h1, !.msg = "rename"]
       ELSE [a EXCEPT !.heap = r.heap, !.book = r.book, !.msg = ""]

\* prompt_yn with default False: an empty answer is no.
prompt_yn_no(response) == IF response = "" THEN FALSE ELSE response = "y"

\* An App.delete_character that deletes without looking at the pages.
App_delete_character_unchecked(a, charnum, response) ==
    LET clist == characters_sorted(a.book)
        char == clist[charnum]
    IN IF charnum < 1 \/ charnum > Len(clist) THEN [a EXCEPT !.msg = "number"]
       ELSE IF ~prompt_yn_no(response) THEN [a EXCEPT !.msg = ""]
       ELSE [a EXCEPT !.book.characters = DictDel(@, a.heap[char].name), !.msg = ""]

\* App.delete_character for entry charnum of the list: refused for the
\* character of a page and for the current character, then confirmed by
\* the user and handed to Book.delete_character.
App_delete_character(a, charnum, response) ==
    LET clist == characters_sorted(a.book)
        char == clist[charnum]
        r == delete_character(a.heap, a.book, a.heap[char].name)
    IN IF charnum < 1 \/ charnum > Len(clist) THEN [a EXCEPT !.msg = "number"]
       ELSE IF \E p \in DOMAIN a.book.pages : a.book.pages[p].character = char
       THEN [a EXCEPT !.msg = "active"]
       ELSE IF char = a.cur_char THEN [a EXCEPT !.msg = "current"]
       ELSE IF ~prompt_yn_no(response) THEN [a EXCEPT !.msg = ""]
       ELSE IF r.exc # NoExc THEN [a EXCEPT !.msg = "delete"]
       ELSE [a EXCEPT !.heap = r.heap, !.book = r.book, !.msg = ""]

\* The 'c' command: after pick_character returns, the current page is
\* given the current character.
AfterPick(a) ==
    [a EXCEPT !.book.pages[a.cur_page].character = a.cur_char]

\* An App.delete_page that also deletes the current page.
App_delete_page_any(a, pagenum) ==
    LET r == delete_page(a.heap, a.book, pagenum)
    IN IF r.exc # NoExc THEN [a EXCEPT !.msg = "notfound"]
       ELSE [a EXCEPT !.book = r.book, !.msg = ""]

\* App.delete_page: refused for the id of the current page.
App_delete_page(a, pagenum) ==
    LET r == delete_page(a.heap, a.book, pagenum)
    IN IF pagenum = a.cur_page THEN [a EXCEPT !.msg = "current"]
       ELSE IF r.exc # NoExc THEN [a EXCEPT !.msg = "notfound"]
       ELSE [a EXCEPT !.book = r.book, !.msg = ""]

\* One answer to the prompt of App.add_intermediate: refused for a page and
\* for an id that is marked already.
App_add_intermediate(a, pagenum) ==
    IF pagenum \in DOMAIN a.book.pages THEN [a EXCEPT !.msg = "page"]
    ELSE IF has_intermediate(a.book, pagenum) THEN [a EXCEPT !.msg = "marked"]
    ELSE [a EXCEPT !.book = add_intermediate(a.heap, a.book, pagenum).book,
                   !.msg = ""]

\* One answer to the prompt of App.delete_intermediate.
App_delete_intermediate(a, pagenum) ==
    IF DOMAIN a.book.intermediates = {} THEN [a EXCEPT !.msg = "none"]
    ELSE [a EXCEPT !.book = delete_intermediate(a.heap, a.book, pagenum).book,
                   !.msg = ""]

\* App.add_choice: an empty summary or target cancels; an exception of
\* Page.add_choice is printed.
App_add_choice(a, summary, target) ==
    LET r == add_choice(a.book.pages[a.cur_page], target, summary)
    IN IF summary = "" \/ target = NoId THEN [a EXCEPT !.msg = ""]
       ELSE IF r.exc # NoExc THEN [a EXCEPT !.msg = "choice"]
       ELSE [a EXCEPT !.book.pages[a.cur_page] = r.page, !.msg = ""]

\* App.delete_choice: an empty answer cancels; the KeyError of
\* Page.delete_choice is printed.
App_delete_choice(a, target) ==
    LET r == delete_choice(a.book.pages[a.cur_page], target)
    IN IF target = NoId THEN [a EXCEPT !.msg = ""]
       ELSE IF r.exc # NoExc THEN [a EXCEPT !.msg = "notfound"]
       ELSE [a EXCEPT !.book.pages[a.cur_page] = r.page, !.msg = ""]

\* App.update_summary: the answer, empty or not, is the new summary.
update_summary(a, summary) ==
    [a EXCEPT !.book.pages[a.cur_page].summary = summary, !.msg = ""]

\* App.toggle_canonical and App.toggle_ending, on the current page.
App_toggle_canonical(a) ==
    [a EXCEPT !.book.pages[a.cur_page] = toggle_canonical(@), !.msg = ""]

App_toggle_ending(a) ==
    [a EXCEPT !.book.pages[a.cur_page] = toggle_ending(@), !.msg = ""]

(* --------------------------- the state machine ------------------------ *)

VARIABLES
    heap,   \* Character objects: object id -> [name, fillcolor, fontcolor]
    book,   \* the Book: [title, characters, pages, intermediates]
    last,   \* the call made by the last step, with its arguments
    err,    \* the exception the last call raised, NoExc when it returned
    changed, \* whether the last call changed the book or a Character
    steps,  \* calls made so far
    savedict, \* the dictionary handed to load_from_dict
    filename, \* Book.filename / App.filename: the path of the book's file
    disk,   \* the files: path -> content
    out,    \* what the last App command printed or wrote
    cur_page, \* App.cur_page, as the id of the page; NoId is None
    cur_char  \* App.cur_char, a Character object; None before one is picked

\* The variables only the codec, file, report and driver specifications use.
io == <<savedict, filename, disk, out, cur_page, cur_char>>

vars == <<heap, book, last, err, changed, steps, savedict, filename, disk, out,
          cur_page, cur_char>>

Call(op, pagenum, name, char, target) ==
    [op |-> op, pagenum |-> pagenum, name |-> name, char |-> char, target |-> target]

\* Saved books to load: the two-page book of a save file, with Alice's
\* colours, the owner of page 1 and the intermediates section varied.  An
\* owner that is no character of the file and a file without intermediates
\* are both among them.
SavePages(owner) ==
    (IntId(1) :> [pagenum |-> IntId(1), character |-> owner, summary |-> "s1",
                  canonical |-> FALSE, ending |-> FALSE,
                  choices |-> (IntId(2) :> [target |-> IntId(2), summary |-> "s2"])])
    @@
    (IntId(2) :> [pagenum |-> IntId(2), character |-> "Alice", summary |-> "s2",
                  canonical |-> TRUE, ending |-> TRUE, choices |-> EmptyMap])

SaveCharacters(fill, font) ==
    ("Alice" :> [name |-> "Alice", graphviz_fillcolor |-> fill,
                 graphviz_fontcolor |-> font])
    @@
    ("Bob" :> Character_to_dict(Character("Bob")))

\* The colours a save file gives Alice: the defaults, or other ones.
SaveColors == {<<"white", "black">>, <<"black", "white">>}

SaveDicts ==
    {[book |-> [title |-> "Test"], characters |-> SaveCharacters(c[1], c[2]),
      pages |-> SavePages(owner), intermediates |-> inter] :
        c \in SaveColors, owner \in Names,
        inter \in {<<>>, <<StrId(1)>>, <<IntId(1), StrId(1)>>}}
    \cup
    {[book |-> [title |-> "Test"], characters |-> SaveCharacters(c[1], c[2]),
      pages |-> SavePages(owner)] :
        c \in SaveColors, owner \in Names}

Init ==
    /\ heap = EmptyMap
    /\ book = Book("Test")
    /\ last = Call("init", NoId, "", None, NoId)
    /\ err = NoExc
    /\ changed = FALSE
    /\ steps = 0
    /\ savedict = EmptyMap
    /\ filename = NoPath
    /\ disk = EmptyMap
    /\ out = EmptyMap
    /\ cur_page = NoId
    /\ cur_char = None

\* A Book method was called: its result becomes the state.
Apply(r, call) ==
    /\ steps < MaxSteps
    /\ heap' = r.heap
    /\ book' = r.book
    /\ err' = r.exc
    /\ changed' = (r.heap # heap \/ r.book # book)
    /\ last' = call
    /\ steps' = steps + 1
    /\ UNCHANGED io

\* A Page method was called on the page of the book with that id.
ApplyPage(pagenum, r, call) ==
    Apply(BookResult(heap, [book EXCEPT !.pages[pagenum] = r.page], r.exc), call)

\* Character objects the caller can hold a reference to.
Objects == DOMAIN heap

Load ==
    \E d \in SaveDicts :
        LET r == load_from_dict(d)
        IN Apply(IF r.exc = NoExc THEN r ELSE BookResult(heap, book, r.exc),
                 Call("load_from_dict", NoId, "", None, NoId))

\* Book.load_from_dict(book.get_savedict()): the book is replaced by its
\* reloaded copy.
SaveLoad ==
    LET s == get_savedict(heap, book)
        r == load_from_dict(s.dict)
    IN Apply(IF s.exc # NoExc THEN BookResult(heap, book, s.exc)
             ELSE IF r.exc # NoExc THEN BookResult(heap, book, r.exc)
             ELSE r,
             Call("save_load", NoId, "", None, NoId))

AddCharacter ==
    \E name \in Names :
        /\ name \in DOMAIN book.characters \/ Cardinality(Objects) < MaxObj
        /\ Apply(add_character(heap, book, name),
                 Call("add_character", NoId, name, None, NoId))

RenameCharacter ==
    \E char \in Objects, newname \in Names :
        Apply(rename_character(heap, book, char, newname),
              Call("rename_character", NoId, newname, char, NoId))

DeleteCharacter ==
    \E charname \in Names :
        Apply(delete_character(heap, book, charname),
              Call("delete_character", NoId, charname, None, NoId))

AddPage ==
    \E pagenum \in PageIds, character \in Objects \cup {None}, summary \in Summaries :
        Apply(add_page(heap, book, pagenum, character, summary),
              Call("add_page", pagenum, "", character, NoId))

DeletePage ==
    \E pagenum \in PageIds :
        Apply(delete_page(heap, book, pagenum),
              Call("delete_page", pagenum, "", None, NoId))

AddIntermediate ==
    \E pagenum \in PageIds :
        Apply(add_intermediate(heap, book, pagenum),
              Call("add_intermediate", pagenum, "", None, NoId))

DeleteIntermediate ==
    \E pagenum \in PageIds :
        Apply(delete_intermediate(heap, book, pagenum),
              Call("delete_intermediate", pagenum, "", None, NoId))

AddChoice ==
    \E pagenum \in DOMAIN book.pages, target \in PageIds, summary \in Summaries :
        ApplyPage(pagenum, add_choice(book.pages[pagenum], target, summary),
                  Call("add_choice", pagenum, "", None, target))

DeleteChoice ==
    \E pagenum \in DOMAIN book.pages, target \in PageIds :
        ApplyPage(pagenum, delete_choice(book.pages[pagenum], target),
                  Call("delete_choice", pagenum, "", None, target))

ToggleCanonical ==
    \E pagenum \in DOMAIN book.pages :
        ApplyPage(pagenum, PageResult(toggle_canonical(book.pages[pagenum]), NoExc),
                  Call("toggle_canonical", pagenum, "", None, NoId))

ToggleEnding ==
    \E pagenum \in DOMAIN book.pages :
        ApplyPage(pagenum, PageResult(toggle_ending(book.pages[pagenum]), NoExc),
                  Call("toggle_ending", pagenum, "", None, NoId))

Next ==
    \/ Load
    \/ SaveLoad
    \/ AddCharacter
    \/ RenameCharacter
    \/ DeleteCharacter
    \/ AddPage
    \/ DeletePage
    \/ AddIntermediate
    \/ DeleteIntermediate
    \/ AddChoice
    \/ DeleteChoice
    \/ ToggleCanonical
    \/ ToggleEnding

Spec == Init /\ [][Next]_vars

(* ---------------------- loading a saved dictionary -------------------- *)

\* A dict with one key when present, none otherwise.
Opt(present, key, value) == IF present THEN key :> value ELSE EmptyMap

\* The characters section of a save file: Alice with her colours, and Bob or
\* not.
CodecCharacters(c, withBob) ==
    [n \in (IF withBob THEN {"Alice", "Bob"} ELSE {"Alice"}) |->
        SaveCharacters(c[1], c[2])[n]]

\* Dictionaries handed to load_from_dict: with or without the book
\* section, its title and the intermediates section; page 1 owned by a
\* character of the file or by one that is not in it.
CodecDicts ==
    {Opt(top # "nobook", "book", Opt(top = "ok", "title", "Test"))
        @@ ("characters" :> CodecCharacters(c, withBob))
        @@ ("pages" :> SavePages(owner))
        @@ Opt(inter # <<NoId>>, "intermediates", inter) :
        top \in {"ok", "notitle", "nobook"}, c \in SaveColors,
        withBob \in BOOLEAN, owner \in Names,
        inter \in {<<NoId>>, <<>>, <<StrId(1)>>, <<IntId(1), StrId(1)>>}}

CodecInit ==
    /\ savedict \in CodecDicts
    /\ heap = EmptyMap
    /\ book = NoBook
    /\ last = Call("init", NoId, "", None, NoId)
    /\ err = NoExc
    /\ changed = FALSE
    /\ steps = 0
    /\ filename = NoPath
    /\ disk = EmptyMap
    /\ out = EmptyMap
    /\ cur_page = NoId
    /\ cur_char = None

\* book = Book.load_from_dict(savedict); a raise leaves no Book.
LoadFromDict ==
    LET r == load_from_dict(savedict)
    IN /\ last.op = "init"
       /\ heap' = IF r.exc = NoExc THEN r.heap ELSE heap
       /\ book' = IF r.exc = NoExc THEN r.book ELSE book
       /\ err' = r.exc
       /\ changed' = (r.exc = NoExc)
       /\ last' = Call("load_from_dict", NoId, "", None, NoId)
       /\ steps' = steps + 1
       /\ UNCHANGED io

CodecNext == LoadFromDict

SpecCodec == CodecInit /\ [][CodecNext]_vars

(* ------------------------- the book and its file ---------------------- *)

FileCall(op, path, response) == [op |-> op, path |-> path, response |-> response]

\* Save files that load: the pages' owners are characters of the file.
FileDicts == {d \in SaveDicts : load_from_dict(d).exc = NoExc}

\* The program starts on a book file that exists, and loads it, or on a new
\* book; a DOT file of an earlier export may lie beside it.
FilesInit ==
    /\ filename \in Paths \cup {NoPath}
    /\ \E d \in FileDicts, exists \in BOOLEAN, older \in SUBSET Paths :
          /\ disk = [f \in (older \ {filename}) \cup (IF exists THEN {filename} \ {NoPath} ELSE {}) |->
                        IF f = filename THEN YamlFile(d)
                        ELSE DotFile("old", <<>>, <<>>)]
          /\ LET r == Book_load(disk, filename)
             IN IF filename \in DOMAIN disk
                THEN heap = r.heap /\ book = r.book
                ELSE heap = EmptyMap /\ book = Book("Test")
    /\ last = FileCall("init", NoPath, "")
    /\ err = NoExc
    /\ changed = FALSE
    /\ steps = 0
    /\ savedict = EmptyMap
    /\ out = EmptyMap
    /\ cur_page = NoId
    /\ cur_char = None

\* book.save(fname), fname None included.
Save ==
    \E fname \in Paths \cup {NoPath} :
        LET r == Book_save(heap, book, filename, fname, disk)
        IN /\ steps < MaxSteps
           /\ disk' = r.disk
           /\ err' = r.exc
           /\ changed' = (r.disk # disk)
           /\ last' = FileCall("save", fname, "")
           /\ steps' = steps + 1
           /\ UNCHANGED <<heap, book, savedict, filename, out, cur_page, cur_char>>

\* What the user answers to a yes/no prompt.
Responses == {"", "y", "n"}

\* choosable.py -f filename -d do_dot: a run of the program that loads the
\* book file and exports it to do_dot; response answers the overwrite
\* prompt of export_dot.
RunDot ==
    \E do_dot \in Paths, response \in Responses :
        /\ steps < MaxSteps
        /\ filename # NoPath
        /\ \E r \in {Book_load(disk, filename)} :
              IF r.exc # NoExc
              THEN /\ err' = r.exc
                   /\ UNCHANGED <<heap, book, disk>>
              ELSE \E e \in {export_dot(r.heap, r.book, disk, do_dot, response)} :
                      /\ heap' = r.heap
                      /\ book' = r.book
                      /\ disk' = e.disk
                      /\ err' = e.exc
        /\ changed' = (disk' # disk)
        /\ last' = FileCall("run_dot", do_dot, response)
        /\ steps' = steps + 1
        /\ out' = EmptyMap
        /\ UNCHANGED <<savedict, filename, cur_page, cur_char>>

\* The PNG that the dot program makes of a DOT file.
PngFile(name) == [kind |-> "png", name |-> name]

\* The error that generate_graphviz prints when it refuses a file name.
Refusal(what) == [error |-> "Refusing to write on top of book data YAML file",
                  what |-> what]

\* The second half of generate_graphviz, after the DOT file d[dot_file] is
\* written: png_typed and png_response answer the prompts for the PNG file
\* name and for overwriting it; the dot program writes the PNG or fails.
GraphvizPng(d, dot_file) ==
    \E png_typed \in {NoPath, filename}, png_response \in Responses,
       dot_runs \in BOOLEAN :
        LET png_file == IF png_typed = NoPath THEN <<dot_file[1], "png">>
                        ELSE png_typed
        IN IF png_file = filename
           THEN disk' = d /\ err' = NoExc /\ out' = Refusal("PNG")
           ELSE /\ err' = NoExc
                /\ out' = EmptyMap
                /\ disk' = IF (png_file \in DOMAIN d /\ ~prompt_yn(png_response))
                               \/ ~dot_runs
                            THEN d
                            ELSE DictSet(d, png_file, PngFile(dot_file[1]))

\* App.generate_graphviz: typed is the answer to the file name prompt (NoPath
\* for an empty answer, which selects <stem of the book file>.dot), response
\* the answer to the overwrite prompt of export_dot.
GenerateGraphviz ==
    \E typed \in Paths \cup {NoPath}, response \in Responses :
        LET dot_file == IF typed = NoPath THEN <<filename[1], "dot">> ELSE typed
        IN /\ steps < MaxSteps
           /\ filename # NoPath
           /\ last' = FileCall("generate_graphviz", dot_file, response)
           /\ steps' = steps + 1
           /\ UNCHANGED <<heap, book, savedict, filename, cur_page, cur_char>>
           /\ IF dot_file = filename
              THEN disk' = disk /\ err' = NoExc /\ out' = Refusal("DOT")
              ELSE \E e \in {export_dot(heap, book, disk, dot_file, response)} :
                      IF ~e.ret
                      THEN disk' = e.disk /\ err' = e.exc /\ out' = EmptyMap
                      ELSE GraphvizPng(e.disk, dot_file)
           /\ changed' = (disk' # disk)

\* The book is edited between saves and exports by Book calls.
FilesNext == Save \/ DeletePage \/ DeleteCharacter \/ RunDot \/ GenerateGraphviz

SpecFiles == FilesInit /\ [][FilesNext]_vars

(* ------------------------- exports and listings ----------------------- *)

ExportIds == {IntId(1), IntId(2), IntId(3), StrId(1)}
ListIds == {IntId(n) : n \in 0..MaxListNum} \cup {StrId(1)}
ReportSummaries == {"a<b>", "s2"}

\* A book of the App: Alice and Bob, the pages of P with their owners,
\* flags and summaries, the choices <<page, target, summary>> of C, the
\* intermediates I.
ReportBook(P, C, I, own, end, canon, sum) ==
    [title |-> "Test",
     characters |-> ("Alice" :> 1) @@ ("Bob" :> 2),
     pages |->
        [p \in P |->
            [pagenum |-> p, character |-> own[p], summary |-> sum[p],
             canonical |-> canon[p], ending |-> end[p],
             choices |->
                [t \in {c[2] : c \in {x \in C : x[1] = p}} |->
                    Choice(t, (CHOOSE c \in C : c[1] = p /\ c[2] = t)[3])]]],
     intermediates |-> [x \in I |-> TRUE]]

\* Books that differ in their pages and choices.
StructureBooks ==
    {ReportBook(P, {f[i] : i \in DOMAIN f}, {},
                [p \in P |-> 1], [p \in P |-> FALSE], [p \in P |-> FALSE],
                [p \in P |-> "s1"]) :
        P \in {Q \in SUBSET ExportIds : Cardinality(Q) \in 1..MaxExportPages},
        f \in UNION {[1..n -> ExportIds \X ExportIds \X ReportSummaries] :
                        n \in 0..MaxExportChoices}}

\* Pages 1 and 2 with a choice from 1 to 2, of every owner and flags.
StyleBooks ==
    {ReportBook({IntId(1), IntId(2)}, {<<IntId(1), IntId(2), "s2">>}, {},
                own, end, canon,
                (IntId(1) :> "say \"x\"") @@ (IntId(2) :> "s2")) :
        own \in [{IntId(1), IntId(2)} -> {1, 2}],
        end \in [{IntId(1), IntId(2)} -> BOOLEAN],
        canon \in [{IntId(1), IntId(2)} -> BOOLEAN]}

\* Books that differ in the ids of their pages and intermediates; the App
\* keeps the two apart, and the current page in the book.
ListBooks ==
    UNION {{ReportBook(P, {}, I, [p \in P |-> 1], [p \in P |-> FALSE],
                       [p \in P |-> FALSE], [p \in P |-> "s1"]) :
                I \in SUBSET (ListIds \ P)} :
            P \in SUBSET ListIds \ {{}}}

\* Page 1 with a choice, and page 2 or not, under every marking of the
\* other ids as intermediates: the target of the choice is a page, an
\* intermediate or neither.
InterBooks ==
    UNION {{ReportBook(P, {<<IntId(1), t, "a<b>">>}, I,
                       [p \in P |-> 1], [p \in P |-> FALSE], [p \in P |-> FALSE],
                       [p \in P |-> "s1"]) :
                t \in ExportIds \ {IntId(1)}, I \in SUBSET (ExportIds \ P) \ {{}}} :
            P \in {{IntId(1)}, {IntId(1), IntId(2)}}}

\* A book in the main loop of the App, saved to its file.
ReportsInit ==
    /\ \E c \in SaveColors :
          heap = <<[name |-> "Alice", fillcolor |-> c[1], fontcolor |-> c[2]],
                   Character("Bob")>>
    /\ book \in StructureBooks \cup StyleBooks \cup ListBooks \cup InterBooks
    /\ filename = <<"book", "yaml">>
    /\ disk = (filename :> YamlFile(get_savedict(heap, book).dict))
    /\ last = FileCall("init", NoPath, "")
    /\ err = NoExc
    /\ changed = FALSE
    /\ steps = 0
    /\ savedict = EmptyMap
    /\ out = EmptyMap
    /\ cur_page = NoId
    /\ cur_char = None

\* App.export_dot to a file that does not exist yet: no prompt.
ExportDot ==
    \E dot_filename \in Paths \ DOMAIN disk :
        LET r == export_dot(heap, book, disk, dot_filename, "")
        IN /\ last.op = "init"
           /\ disk' = r.disk
           /\ err' = r.exc
           /\ changed' = (r.disk # disk)
           /\ last' = FileCall("export_dot", dot_filename, "")
           /\ steps' = steps + 1
           /\ UNCHANGED <<heap, book, savedict, filename, out, cur_page, cur_char>>

\* App.list_pages.
ListPages ==
    LET r == list_pages(heap, book)
    IN /\ last.op = "init"
       /\ out' = r
       /\ err' = r.exc
       /\ changed' = FALSE
       /\ last' = FileCall("list_pages", NoPath, "")
       /\ steps' = steps + 1
       /\ UNCHANGED <<heap, book, savedict, filename, disk, cur_page, cur_char>>

ReportsNext == ExportDot \/ ListPages

SpecReports == ReportsInit /\ [][ReportsNext]_vars

(* --------------------------- the main loop ---------------------------- *)

DriverIds == {IntId(1), IntId(2), StrId(1)}
DriverNames == {"Alice", "Bob"}
\* Answers to the two colour prompts, text colour first.
DriverColors == {<<"", "">>, <<"white", "black">>}
\* Answers to a summary prompt; the empty one cancels.
DriverSummaries == {"", "s1"}
\* Answers to a character number prompt; 0 is the empty answer.
CharNums == 0..2

\* Book files the program is started on: Alice in her default colours.
DriverDicts ==
    {d \in FileDicts : d.characters["Alice"].graphviz_fillcolor = "white"}

DriverCall(op, pagenum, charnum, name) ==
    [op |-> op, pagenum |-> pagenum, charnum |-> charnum, name |-> name]

\* The App is constructed; its book file exists or not.
DriverInit ==
    /\ filename = <<"book", "yaml">>
    /\ \E d \in DriverDicts, exists \in BOOLEAN :
          disk = IF exists THEN (filename :> YamlFile(d)) ELSE EmptyMap
    /\ heap = EmptyMap
    /\ book = NoBook
    /\ cur_page = NoId
    /\ cur_char = None
    /\ last = DriverCall("init", NoId, 0, "")
    /\ err = NoExc
    /\ changed = FALSE
    /\ steps = 0
    /\ savedict = EmptyMap
    /\ out = EmptyMap

\* What a command printed.
Printed(msg) == IF msg = "" THEN EmptyMap ELSE [error |-> msg]

\* The main loop runs: run() has set the current page.
InLoop == cur_page # NoId

Cur == AppState(heap, book, cur_page, cur_char, "")

\* A command of the main loop has run and left the App as a.
ApplyApp(a, call) ==
    /\ InLoop
    /\ steps < MaxSteps
    /\ heap' = a.heap
    /\ book' = a.book
    /\ cur_page' = a.cur_page
    /\ cur_char' = a.cur_char
    /\ out' = Printed(a.msg)
    /\ err' = NoExc
    /\ changed' = (a.heap # heap \/ a.book # book)
    /\ last' = call
    /\ steps' = steps + 1
    /\ UNCHANGED <<savedict, filename, disk>>

\* run() up to the main loop, for a book file that does not exist: the user
\* agrees to a new book and gives its title, the first character is made,
\* page 1 is made (the prompt repeats until a summary is given) and the
\* book is saved. A refusal, an empty title or an empty name ends run(); so
\* does an exception of save.
RunNew ==
    \E response \in Responses, title \in {"", "New"}, newname \in DriverNames \cup {""},
       c \in DriverColors, summary \in DriverSummaries \ {""} :
        /\ last.op = "init"
        /\ filename \notin DOMAIN disk
        /\ last' = DriverCall("run", NoId, 0, newname)
        /\ steps' = steps + 1
        /\ UNCHANGED <<savedict, filename>>
        /\ IF ~prompt_yn(response) \/ title = "" \/ newname = ""
           THEN /\ out' = Printed("exit")
                /\ err' = NoExc
                /\ UNCHANGED <<heap, book, cur_page, cur_char, disk>>
           ELSE \E a \in {create_page(new_character(AppState(EmptyMap, Book(title), NoId, None, ""),
                                                    newname, c[1], c[2]),
                                      IntId(1), summary)} :
                \E s \in {Book_save(a.heap, a.book, filename, NoPath, disk)} :
                   /\ heap' = a.heap
                   /\ book' = a.book
                   /\ cur_char' = a.cur_char
                   /\ cur_page' = IF s.exc = NoExc THEN a.cur_page ELSE NoId
                   /\ disk' = s.disk
                   /\ err' = s.exc
                   /\ out' = EmptyMap
        /\ changed' = (book' # book)

\* run() up to the main loop, for a book file that exists: the book is
\* loaded and page 1 made the current page; an exception of either ends
\* run().
RunLoad ==
    /\ last.op = "init"
    /\ filename \in DOMAIN disk
    /\ last' = DriverCall("run", NoId, 0, "")
    /\ steps' = steps + 1
    /\ out' = EmptyMap
    /\ UNCHANGED <<savedict, filename, disk>>
    /\ \E r \in {Book_load(disk, filename)} :
          IF r.exc # NoExc
          THEN err' = r.exc /\ UNCHANGED <<heap, book, cur_page, cur_char>>
          ELSE IF IntId(1) \notin DOMAIN r.book.pages
          THEN /\ err' = "Exception"
               /\ heap' = r.heap /\ book' = r.book
               /\ UNCHANGED <<cur_page, cur_char>>
          ELSE /\ err' = NoExc
               /\ heap' = r.heap /\ book' = r.book
               /\ cur_page' = IntId(1)
               /\ cur_char' = r.book.pages[IntId(1)].character
    /\ changed' = (book' # book)

\* A page number, or 'p' and a page number.
CmdPageSwitch ==
    \E pagenum \in DriverIds, summary \in DriverSummaries :
        ApplyApp(page_switch(Cur, pagenum, summary),
                 DriverCall("page_switch", pagenum, 0, summary))

\* 'c' and a number or an empty answer.
CmdPickCharacter ==
    \E charnum \in CharNums :
        ApplyApp(AfterPick(pick_character(Cur, charnum)),
                 DriverCall("pick_character", NoId, charnum, ""))

\* 'c', 'n' and the answers for the new character.
CmdNewCharacter ==
    \E newname \in DriverNames \cup {""}, c \in DriverColors :
        ApplyApp(AfterPick(new_character(Cur, newname, c[1], c[2])),
                 DriverCall("new_character", NoId, 0, newname))

\* 'c', 'e' and the answers for the character to edit.
CmdEditCharacter ==
    \E charnum \in CharNums \ {0}, name \in DriverNames \cup {""}, c \in DriverColors :
        ApplyApp(AfterPick(edit_character(Cur, charnum, name, c[1], c[2])),
                 DriverCall("edit_character", NoId, charnum, name))

\* 'c', 'd', the number of the character and the answer to the confirmation.
CmdDeleteCharacter ==
    \E charnum \in CharNums \ {0}, response \in Responses :
        ApplyApp(AfterPick(App_delete_character(Cur, charnum, response)),
                 DriverCall("delete_character", NoId, charnum, response))

\* 'x' and a page number.
CmdDeletePage ==
    \E pagenum \in DriverIds :
        ApplyApp(App_delete_page(Cur, pagenum),
                 DriverCall("delete_page", pagenum, 0, ""))

\* 'i' and a page number (the prompt repeats until the answer is empty).
CmdAddIntermediate ==
    \E pagenum \in DriverIds :
        ApplyApp(App_add_intermediate(Cur, pagenum),
                 DriverCall("add_intermediate", pagenum, 0, ""))

\* 'o' and a page number (the prompt repeats until the answer is empty).
CmdDeleteIntermediate ==
    \E pagenum \in DriverIds :
        ApplyApp(App_delete_intermediate(Cur, pagenum),
                 DriverCall("delete_intermediate", pagenum, 0, ""))

\* 'a', a summary and a target page number.
CmdAddChoice ==
    \E summary \in DriverSummaries, target \in {NoId, IntId(2)} :
        ApplyApp(App_add_choice(Cur, summary, target),
                 DriverCall("add_choice", target, 0, summary))

\* 'd' and the target of the choice to delete.
CmdDeleteChoice ==
    \E target \in {NoId, IntId(2)} :
        ApplyApp(App_delete_choice(Cur, target),
                 DriverCall("delete_choice", target, 0, ""))

\* 'u' and the new summary.
CmdUpdateSummary ==
    \E summary \in DriverSummaries :
        ApplyApp(update_summary(Cur, summary),
                 DriverCall("update_summary", NoId, 0, summary))

\* 't' and 'e'.
CmdToggleCanonical ==
    ApplyApp(App_toggle_canonical(Cur), DriverCall("toggle_canonical", NoId, 0, ""))

CmdToggleEnding ==
    ApplyApp(App_toggle_ending(Cur), DriverCall("toggle_ending", NoId, 0, ""))

\* 's': App.save, which saves the book to its own file.
CmdSave ==
    \E s \in {Book_save(heap, book, filename, NoPath, disk)} :
        /\ InLoop
        /\ steps < MaxSteps
        /\ disk' = s.disk
        /\ err' = s.exc
        /\ out' = EmptyMap
        /\ changed' = FALSE
        /\ last' = DriverCall("save", NoId, 0, "")
        /\ steps' = steps + 1
        /\ UNCHANGED <<heap, book, cur_page, cur_char, savedict, filename>>

DriverNext ==
    \/ RunNew \/ RunLoad
    \/ CmdPageSwitch \/ CmdPickCharacter \/ CmdNewCharacter \/ CmdEditCharacter
    \/ CmdDeleteCharacter \/ CmdDeletePage
    \/ CmdAddIntermediate \/ CmdDeleteIntermediate
    \/ CmdAddChoice \/ CmdDeleteChoice \/ CmdUpdateSummary
    \/ CmdToggleCanonical \/ CmdToggleEnding \/ CmdSave

SpecDriver == DriverInit /\ [][DriverNext]_vars

(* ------------------------------ properties ---------------------------- *)

\* The Character objects that are entries of the book's characters dict.
BookObjects(b) == {b.characters[n] : n \in DOMAIN b.characters}

\* What a book holds, by value: the title, each character's fields by key,
\* each page's fields with the name of its character, and the intermediates.
BookView(h, b) ==
    [title |-> b.title,
     characters |-> [n \in DOMAIN b.characters |-> h[b.characters[n]]],
     pages |-> [p \in DOMAIN b.pages |->
                  [pagenum |-> b.pages[p].pagenum,
                   character |-> IF b.pages[p].character = None THEN ""
                                 ELSE h[b.pages[p].character].name,
                   summary |-> b.pages[p].summary,
                   canonical |-> b.pages[p].canonical,
                   ending |-> b.pages[p].ending,
                   choices |-> b.pages[p].choices]],
     intermediates |-> DOMAIN b.intermediates]

RoundTripPre(b) ==
    /\ DOMAIN b.characters # {}
    /\ DOMAIN b.pages # {}
    /\ \A p \in DOMAIN b.pages : b.pages[p].character \in BookObjects(b)

\* C1: for a book with a character and a page whose pages all reference
\* characters of the book, load_from_dict(get_savedict()) succeeds and the
\* book it yields has the same title, characters (name and both colours),
\* pages (id, character name, summary, flags, choices) and intermediates.
C1_RoundTrip ==
    [][(last'.op = "save_load" /\ RoundTripPre(book)) =>
          (err' = NoExc /\ BookView(heap', book') = BookView(heap, book))]_vars

\* A reloaded book with custom colours, a flagged page, a choice and an
\* intermediate.
C1_Witness ==
    /\ last.op = "save_load" /\ err = NoExc
    /\ \E n \in DOMAIN book.characters : heap[book.characters[n]].fillcolor # "white"
    /\ \E p \in DOMAIN book.pages :
          book.pages[p].canonical /\ book.pages[p].ending
    /\ \E p \in DOMAIN book.pages : DOMAIN book.pages[p].choices # {}
    /\ DOMAIN book.intermediates # {}

\* C2: every page of the book has a character that is an entry of the
\* book's characters dict.
C2_PageCharacterInBook ==
    \A p \in DOMAIN book.pages : book.pages[p].character \in BookObjects(book)

\* C3: no page id is both a key of the pages and an intermediate.
C3_PageNotIntermediate ==
    DOMAIN book.pages \cap DOMAIN book.intermediates = {}

\* A page of the book is owned by a character of that name (the name is the
\* character's identity).
Owned(h, b, name) ==
    \E p \in DOMAIN b.pages :
        b.pages[p].character # None /\ h[b.pages[p].character].name = name

\* C4: delete_character(name) raises and changes nothing when name is no
\* character of the book or a page is owned by it; otherwise it removes
\* exactly that character, which is then absent from characters_sorted().
C4_DeleteCharacter ==
    [][last'.op = "delete_character" =>
          IF last'.name \notin DOMAIN book.characters \/ Owned(heap, book, last'.name)
          THEN err' # NoExc /\ book' = book /\ heap' = heap
          ELSE /\ err' = NoExc
               /\ book' = [book EXCEPT !.characters = DictDel(@, last'.name)]
               /\ heap' = heap
               /\ \A i \in DOMAIN characters_sorted(book') :
                     heap'[characters_sorted(book')[i]].name # last'.name]_vars

\* C5: rename_character(A, newName) raises when a different character holds
\* newName, and the characters dict and every Character are as before.
C5_RenameConflict ==
    [][(/\ last'.op = "rename_character"
        /\ last'.name \in DOMAIN book.characters
        /\ book.characters[last'.name] # last'.char) =>
          (err' # NoExc /\ book' = book /\ heap' = heap)]_vars

\* A rename of a character of the book was refused because another
\* character of the book holds the name.
C5_Witness ==
    /\ last.op = "rename_character" /\ err = "Exception"
    /\ last.char \in BookObjects(book)
    /\ last.name \in DOMAIN book.characters
    /\ book.characters[last.name] # last.char

\* C6: rename_character(char, newName), for a character of the book and a
\* name no other character holds, returns; char is then under newName and
\* carries it, its old key is gone (unless it is newName), the dict has as
\* many entries, every other character and every page is untouched, so a
\* page that referenced char still does and reports newName.
C6_RenameFrame ==
    [][(/\ last'.op = "rename_character"
        /\ last'.char \in BookObjects(book)
        /\ ~(/\ last'.name \in DOMAIN book.characters
             /\ book.characters[last'.name] # last'.char)) =>
          LET char == last'.char
              new == last'.name
              old == heap[char].name
          IN /\ err' = NoExc
             /\ new \in DOMAIN book'.characters /\ book'.characters[new] = char
             /\ heap'[char].name = new
             /\ new # old => old \notin DOMAIN book'.characters
             /\ Cardinality(DOMAIN book'.characters) = Cardinality(DOMAIN book.characters)
             /\ \A n \in DOMAIN book.characters \ {old} :
                   /\ n \in DOMAIN book'.characters
                   /\ book'.characters[n] = book.characters[n]
                   /\ heap'[book.characters[n]] = heap[book.characters[n]]
             /\ heap'[char].fillcolor = heap[char].fillcolor
             /\ heap'[char].fontcolor = heap[char].fontcolor
             /\ book'.pages = book.pages
             /\ \A p \in DOMAIN book.pages :
                   book.pages[p].character = char =>
                      heap'[book'.pages[p].character].name = new]_vars

\* A character that owns a page was renamed to Carol, beside another
\* character that kept its entry.
C6_Witness ==
    /\ last.op = "rename_character" /\ err = NoExc /\ changed
    /\ last.name = "Carol"
    /\ Cardinality(DOMAIN book.characters) >= 2
    /\ \E p \in DOMAIN book.pages : book.pages[p].character = last.char

\* Every choice of every page is stored under its own target, so no page
\* holds two choices with one target.
ChoiceKeysAreTargets(b) ==
    \A p \in DOMAIN b.pages :
        \A k \in DOMAIN b.pages[p].choices : b.pages[p].choices[k].target = k

\* C7: add_choice(target, summary) raises when the page has a choice with
\* that target and the page's choices are unchanged; no page ever holds two
\* choices with the same target.
C7_AddChoiceDuplicate ==
    [][/\ (/\ last'.op = "add_choice"
           /\ last'.target \in DOMAIN book.pages[last'.pagenum].choices) =>
             (err' # NoExc /\ book' = book /\ heap' = heap)
       /\ ChoiceKeysAreTargets(book')]_vars

\* add_choice was refused on a page that holds a choice with the target.
C7_Witness ==
    /\ last.op = "add_choice" /\ err = "Exception"
    /\ last.target \in DOMAIN book.pages[last.pagenum].choices

\* C8: delete_page(pageId) raises and changes nothing when pageId is no
\* page; otherwise only that page is removed: every other page with its
\* choices, the characters and the intermediates are unchanged.
C8_DeletePage ==
    [][last'.op = "delete_page" =>
          IF last'.pagenum \notin DOMAIN book.pages
          THEN err' # NoExc /\ book' = book /\ heap' = heap
          ELSE /\ err' = NoExc
               /\ DOMAIN book'.pages = DOMAIN book.pages \ {last'.pagenum}
               /\ \A q \in DOMAIN book'.pages : book'.pages[q] = book.pages[q]
               /\ book'.characters = book.characters
               /\ book'.intermediates = book.intermediates
               /\ book'.title = book.title
               /\ heap' = heap]_vars

\* A page was deleted and another page keeps its choice to it.
C8_Witness ==
    /\ last.op = "delete_page" /\ err = NoExc
    /\ last.pagenum \notin DOMAIN book.pages
    /\ \E q \in DOMAIN book.pages : last.pagenum \in DOMAIN book.pages[q].choices

\* C9: add_intermediate and delete_intermediate never raise; adding makes the
\* id an intermediate exactly once and changes nothing when it already was,
\* adding it again changes nothing, removing a missing id changes nothing.
C9_IntermediatesIdempotent ==
    [][/\ last'.op = "add_intermediate" =>
             /\ err' = NoExc
             /\ DOMAIN book'.intermediates =
                   DOMAIN book.intermediates \cup {last'.pagenum}
             /\ Cardinality(DOMAIN book'.intermediates) =
                   Cardinality(DOMAIN book.intermediates \ {last'.pagenum}) + 1
             /\ last'.pagenum \in DOMAIN book.intermediates => book' = book
             /\ add_intermediate(heap', book', last'.pagenum).book = book'
             /\ [book' EXCEPT !.intermediates = book.intermediates] = book
             /\ heap' = heap
       /\ last'.op = "delete_intermediate" =>
             /\ err' = NoExc
             /\ DOMAIN book'.intermediates =
                   DOMAIN book.intermediates \ {last'.pagenum}
             /\ last'.pagenum \notin DOMAIN book.intermediates => book' = book
             /\ [book' EXCEPT !.intermediates = book.intermediates] = book
             /\ heap' = heap]_vars

\* add_intermediate returned without changing a book that already had the
\* marker.
C9_Witness ==
    /\ last.op = "add_intermediate" /\ err = NoExc /\ ~changed
    /\ last.pagenum \in DOMAIN book.intermediates
    /\ Cardinality(DOMAIN book.intermediates) >= 2

\* C10: add_page(pageId, character, summary) raises when pageId is a page of
\* the book, and the existing page and the rest of the book are unchanged.
C10_AddPageExisting ==
    [][(last'.op = "add_page" /\ last'.pagenum \in DOMAIN book.pages) =>
          (err' # NoExc /\ book' = book /\ heap' = heap)]_vars

\* add_page was refused for the id of a page that has a choice and a flag.
C10_Witness ==
    /\ last.op = "add_page" /\ err = "Exception"
    /\ last.pagenum \in DOMAIN book.pages
    /\ DOMAIN book.pages[last.pagenum].choices # {}
    /\ \E q \in DOMAIN book.pages : book.pages[q].ending

\* The file a save(fname) call of the book writes to.
SaveTarget(fname) == IF fname = NoPath THEN filename ELSE fname

\* C11: saving a Book with no characters or no pages raises, and raises
\* before the file is opened: no file is created and every file, the one
\* at the target path included, keeps its contents.
C11_SaveEmptyBook ==
    [][(last'.op = "save" /\ (DOMAIN book.characters = {} \/ DOMAIN book.pages = {}))
          => (err' # NoExc /\ disk' = disk)]_vars

\* A save of a book without pages onto its existing file was refused and
\* the file still holds the pages saved earlier.
C11_Witness ==
    /\ last.op = "save" /\ err = "Exception"
    /\ DOMAIN book.pages = {}
    /\ SaveTarget(last.path) \in DOMAIN disk
    /\ disk[SaveTarget(last.path)].kind = "yaml"
    /\ DOMAIN disk[SaveTarget(last.path)].dict.pages # {}

\* The names the characters section of a dictionary gives.
SectionNames(d) == {d.characters[k].name : k \in DOMAIN d.characters}

HasTitle(d) == "book" \in DOMAIN d /\ "title" \in DOMAIN d.book

\* Every page record names a character of the characters section.
OwnersPresent(d) ==
    \A k \in DOMAIN d.pages : d.pages[k].character \in SectionNames(d)

\* C12: load_from_dict raises and returns no Book when a page record names
\* a character that the characters section lacks, or when the dictionary
\* has no title.
C12_LoadRejects ==
    (last.op = "load_from_dict" /\ (~HasTitle(savedict) \/ ~OwnersPresent(savedict)))
        => (err # NoExc /\ book = NoBook /\ heap = EmptyMap)

\* A load was refused for a titled dictionary whose page 1 names a character
\* that is not in the file.
C12_Witness ==
    /\ last.op = "load_from_dict" /\ err = "Exception"
    /\ HasTitle(savedict) /\ ~OwnersPresent(savedict)
    /\ book = NoBook

\* C13: load_from_dict accepts a dictionary without an intermediates field:
\* the Book has no intermediates, and the characters and pages of the
\* dictionary with their fields.
C13_LoadWithoutIntermediates ==
    (/\ last.op = "load_from_dict"
     /\ "intermediates" \notin DOMAIN savedict
     /\ HasTitle(savedict) /\ OwnersPresent(savedict)) =>
        /\ err = NoExc
        /\ DOMAIN book.intermediates = {}
        /\ book.title = savedict.book.title
        /\ DOMAIN book.characters = SectionNames(savedict)
        /\ \A k \in DOMAIN savedict.characters :
              LET cd == savedict.characters[k]
                  c == heap[book.characters[cd.name]]
              IN /\ c.name = cd.name
                 /\ c.fillcolor = cd.graphviz_fillcolor
                 /\ c.fontcolor = cd.graphviz_fontcolor
        /\ DOMAIN book.pages = {savedict.pages[k].pagenum : k \in DOMAIN savedict.pages}
        /\ \A k \in DOMAIN savedict.pages :
              LET pd == savedict.pages[k]
                  pg == book.pages[pd.pagenum]
              IN /\ pg.pagenum = pd.pagenum
                 /\ heap[pg.character].name = pd.character
                 /\ pg.summary = pd.summary
                 /\ pg.canonical = pd.canonical
                 /\ pg.ending = pd.ending
                 /\ pg.choices = pd.choices

\* A dictionary without intermediates was loaded, characters and pages
\* included.
C13_Witness ==
    /\ last.op = "load_from_dict" /\ err = NoExc
    /\ "intermediates" \notin DOMAIN savedict
    /\ DOMAIN book.pages # {} /\ DOMAIN book.characters # {}
    /\ DOMAIN book.intermediates = {}

\* The targets of the choices of the book, and those among them that no
\* page has.
Targets(b) == UNION {DOMAIN b.pages[p].choices : p \in DOMAIN b.pages}
Dangling(b) == Targets(b) \ DOMAIN b.pages

\* C14: the export emits exactly one node for each page and exactly one for
\* each choice target that is not a page, and no other node; the node of an
\* id that is a page has the page form of label, also when choices target
\* it, and only the other nodes have the unvisited form.
C14_ExportNodes ==
    last.op = "export_dot" =>
        LET nodes == disk[last.path].nodes
        IN /\ err = NoExc
           /\ \A x \in DOMAIN book.pages \cup Dangling(book) :
                 Cardinality({i \in DOMAIN nodes : nodes[i].pagenum = x}) = 1
           /\ \A i \in DOMAIN nodes :
                 /\ nodes[i].pagenum \in DOMAIN book.pages \cup Dangling(book)
                 /\ nodes[i].label.pagenum = nodes[i].pagenum
                 /\ nodes[i].label.form =
                       IF nodes[i].pagenum \in DOMAIN book.pages
                       THEN "quoted" ELSE "italic"

\* An export of a book in which one choice leads to a page and another to
\* an id without a page.
C14_Witness ==
    /\ last.op = "export_dot" /\ err = NoExc
    /\ Targets(book) \cap DOMAIN book.pages # {}
    /\ Dangling(book) # {}
    /\ Len(disk[last.path].nodes) = 3

\* The last choice with that target in the order of the export's loops:
\* the one of the page with the largest id.
LastChoiceTo(b, target) ==
    LET from == {p \in DOMAIN b.pages : target \in DOMAIN b.pages[p].choices}
        p == CHOOSE x \in from : \A y \in from \ {x} : IdLess(y, x)
    IN b.pages[p].choices[target]

\* C15: the label of an unvisited node is built from the summary of the
\* last choice with that target, pages and choices taken in ascending
\* order: the last write wins.
C15_LastLabelWins ==
    last.op = "export_dot" =>
        LET nodes == disk[last.path].nodes
        IN \A i \in DOMAIN nodes :
              nodes[i].label.form = "italic" =>
                 nodes[i].label.text =
                    UnvisitedLabel(LastChoiceTo(book, nodes[i].pagenum)).text

\* An export of a book in which two pages lead to the same id without a
\* page under different summaries.
C15_Witness ==
    /\ last.op = "export_dot" /\ err = NoExc
    /\ \E t \in Dangling(book), p, q \in DOMAIN book.pages :
          /\ p # q
          /\ t \in DOMAIN book.pages[p].choices
          /\ t \in DOMAIN book.pages[q].choices
          /\ book.pages[p].choices[t].summary # book.pages[q].choices[t].summary

\* C16: the nodes of the export are one sequence in ascending id order,
\* integer ids by value and before string ids, so an unvisited node whose
\* id lies between two page ids stands between their nodes.
C16_NodesAscending ==
    last.op = "export_dot" =>
        LET nodes == disk[last.path].nodes
        IN \A i, j \in DOMAIN nodes :
              i < j => IdLess(nodes[i].pagenum, nodes[j].pagenum)

\* An export in which an unvisited node stands between two page nodes.
C16_Witness ==
    /\ last.op = "export_dot" /\ err = NoExc
    /\ LET nodes == disk[last.path].nodes
       IN \E i \in DOMAIN nodes :
             /\ i + 2 \in DOMAIN nodes
             /\ nodes[i].label.form = "quoted"
             /\ nodes[i + 1].label.form = "italic"
             /\ nodes[i + 2].label.form = "quoted"

\* The <<page id, target>> pairs of the choices of the book.
ChoiceKeys(b) ==
    UNION {{<<p, t>> : t \in DOMAIN b.pages[p].choices} : p \in DOMAIN b.pages}

\* C17: the export emits exactly one edge per choice of every page, from
\* the page id to the target, whether the target is a page or not; the
\* edges ascend by page id and, within a page, by target.
C17_ExportEdges ==
    last.op = "export_dot" =>
        LET edges == disk[last.path].edges
        IN /\ {<<edges[i].from, edges[i].to>> : i \in DOMAIN edges} = ChoiceKeys(book)
           /\ Len(edges) = Cardinality(ChoiceKeys(book))
           /\ \A i, j \in DOMAIN edges :
                 i < j => \/ IdLess(edges[i].from, edges[j].from)
                          \/ /\ edges[i].from = edges[j].from
                             /\ IdLess(edges[i].to, edges[j].to)

\* An export with an edge to a page and an edge to an id without a page.
C17_Witness ==
    /\ last.op = "export_dot" /\ err = NoExc
    /\ LET edges == disk[last.path].edges
       IN /\ \E i \in DOMAIN edges : edges[i].to \in DOMAIN book.pages
          /\ \E i \in DOMAIN edges : edges[i].to \notin DOMAIN book.pages

\* C18: the style of a page node is given by the page's ending flag, its
\* canonical flag and its character's two colours: an ending has the
\* closed colours (white on azure4) whatever its character's colours, any
\* other page its character's font and fill colour, and a canonical page
\* is a bold box, ending or not.
C18_PageStyle ==
    last.op = "export_dot" =>
        LET nodes == disk[last.path].nodes
        IN \A i \in DOMAIN nodes :
              nodes[i].pagenum \in DOMAIN book.pages =>
                 LET page == book.pages[nodes[i].pagenum]
                     label == nodes[i].label
                 IN /\ label.fontcolor =
                          IF page.ending THEN "white" ELSE heap[page.character].fontcolor
                    /\ label.fillcolor =
                          IF page.ending THEN "azure4" ELSE heap[page.character].fillcolor
                    /\ label.shape = IF page.canonical THEN "box" ELSE ""
                    /\ label.style =
                          IF page.canonical THEN <<"filled", "bold">> ELSE <<"filled">>

\* An export of a canonical ending of a character with colours of her own,
\* and of a page of hers that is neither.
C18_Witness ==
    /\ last.op = "export_dot" /\ err = NoExc
    /\ \E p, q \in DOMAIN book.pages :
          /\ book.pages[p].ending /\ book.pages[p].canonical
          /\ heap[book.pages[p].character].fontcolor = "white"
          /\ heap[book.pages[p].character].fillcolor = "black"
          /\ ~book.pages[q].ending /\ ~book.pages[q].canonical
          /\ book.pages[q].character = book.pages[p].character

\* C19: no export writes the graph over the book's own file: when the
\* output path of generate_graphviz or of the --dot option of run is the
\* path of the book file, the export ends with an error and no file is
\* opened for writing.
C19_ExportNeverOverBook ==
    [][(last'.op \in {"generate_graphviz", "run_dot"} /\ last'.path = filename)
          => (disk' = disk /\ (err' # NoExc \/ "error" \in DOMAIN out'))]_vars

\* The integers from 1 to the largest integer id in use that are neither a
\* page nor an intermediate.
Gaps(b) ==
    LET used == IntKeys(b)
        top == CHOOSE x \in used : \A y \in used : y <= x
    IN {n \in 1..top : n \notin used}

\* C20: for page and intermediate ids whose integers are not negative,
\* list_pages computes as missing exactly the integers from 1 to the
\* largest integer id in use that are neither a page nor an intermediate;
\* string ids do not change the result.
C20_MissingPages ==
    (last.op = "list_pages" /\ IntKeys(book) # {}) =>
        /\ err = NoExc
        /\ "missing" \in DOMAIN out
        /\ Range(out.missing) = Gaps(book)
        /\ Len(out.missing) = Cardinality(Gaps(book))

\* A sequence without repetition whose elements are those of set S.
ListsOnce(seq, S) ==
    /\ Len(seq) = Cardinality(S)
    /\ {seq[i] : i \in DOMAIN seq} = S

\* C21: in every reachable Book state pages_sorted(), characters_sorted(),
\* intermediates_sorted() and each page's choices_sorted() return every
\* element of their collection exactly once, in strictly ascending key
\* order, integer ids by value and before string ids.
C21_SortedViews ==
    LET ps == pages_sorted(book)
        cs == characters_sorted(book)
        is == intermediates_sorted(book)
    IN /\ ListsOnce(ps, {book.pages[k] : k \in DOMAIN book.pages})
       /\ Len(ps) = Cardinality(DOMAIN book.pages)
       /\ \A i, j \in DOMAIN ps : i < j => IdLess(ps[i].pagenum, ps[j].pagenum)
       /\ ListsOnce(cs, {book.characters[n] : n \in DOMAIN book.characters})
       /\ Len(cs) = Cardinality(DOMAIN book.characters)
       /\ \A i, j \in DOMAIN cs :
             i < j => NameRank(heap[cs[i]].name) < NameRank(heap[cs[j]].name)
       /\ ListsOnce(is, DOMAIN book.intermediates)
       /\ \A i, j \in DOMAIN is : i < j => IdLess(is[i], is[j])
       /\ \A p \in DOMAIN book.pages :
             LET ch == choices_sorted(book.pages[p])
                 all == book.pages[p].choices
             IN /\ ListsOnce(ch, {all[t] : t \in DOMAIN all})
                /\ Len(ch) = Cardinality(DOMAIN all)
                /\ \A i, j \in DOMAIN ch : i < j => IdLess(ch[i].target, ch[j].target)

\* A book with integer and string page ids, two characters, two
\* intermediates of both kinds and a page with two choices.
C21_Witness ==
    /\ \E p, q \in DOMAIN book.pages : p[1] = "int" /\ q[1] = "str"
    /\ Cardinality(DOMAIN book.characters) >= 2
    /\ \E x, y \in DOMAIN book.intermediates : x[1] = "int" /\ y[1] = "str"
    /\ \E p \in DOMAIN book.pages : Cardinality(DOMAIN book.pages[p].choices) >= 2

\* C22: delete_choice(target) raises and leaves the page's choices as they
\* were when the page has no choice with that target; when it has one,
\* that choice alone is removed: the page's other choices, its summary,
\* character and flags are unchanged.
C22_DeleteChoice ==
    [][last'.op = "delete_choice" =>
          LET p == last'.pagenum
              t == last'.target
              old == book.pages[p]
              new == book'.pages[p]
          IN /\ DOMAIN book'.pages = DOMAIN book.pages
             /\ IF t \notin DOMAIN old.choices
                THEN err' # NoExc /\ new = old
                ELSE /\ err' = NoExc
                     /\ DOMAIN new.choices = DOMAIN old.choices \ {t}
                     /\ \A k \in DOMAIN new.choices : new.choices[k] = old.choices[k]
                     /\ new.pagenum = old.pagenum
                     /\ new.summary = old.summary
                     /\ new.character = old.character
                     /\ new.canonical = old.canonical
                     /\ new.ending = old.ending
                     /\ heap' = heap]_vars

\* A choice was deleted from a page that keeps another choice.
C22_Witness ==
    /\ last.op = "delete_choice" /\ err = NoExc /\ changed
    /\ last.target \notin DOMAIN book.pages[last.pagenum].choices
    /\ DOMAIN book.pages[last.pagenum].choices # {}

\* Every page's character is a Character object that the book holds under
\* its name.
PagesOwned(h, b) ==
    \A p \in DOMAIN b.pages :
        LET char == b.pages[p].character
        IN /\ char # None
           /\ h[char].name \in DOMAIN b.characters
           /\ b.characters[h[char].name] = char

\* C23: after any sequence of driver commands on a book the driver created
\* or loaded, every page's character is a character of the book; a page
\* that a command creates is owned by the current character, and no
\* command deletes a character that a page, the current page included,
\* is owned by.
C23_DriverPagesOwned ==
    [][/\ InLoop' => PagesOwned(heap', book')
       /\ (last'.op = "page_switch" /\ last'.pagenum \notin DOMAIN book.pages
             /\ last'.pagenum \in DOMAIN book'.pages) =>
                book'.pages[last'.pagenum].character = cur_char
       /\ last'.op = "delete_character" =>
             \A p \in DOMAIN book.pages :
                heap[book.pages[p].character].name \in DOMAIN book'.characters]_vars

\* The driver refused to delete the character of a page.
C23_Witness ==
    /\ last.op = "delete_character" /\ last.name = "y"
    /\ "error" \in DOMAIN out /\ out.error = "active"
    /\ Cardinality(DOMAIN book.characters) >= 2


\* No id of the book is a page and an intermediate at once.
PagesApart(b) == DOMAIN b.pages \cap DOMAIN b.intermediates = {}

\* C24: for a book created in the driver no id is both a page and an
\* intermediate: the new book starts that way and every command keeps it
\* so; App.add_intermediate refuses the id of a page, and page_switch
\* refuses to create or select a page with the id of an intermediate.
C24_DriverPagesApart ==
    [][/\ (last.op = "init" /\ filename \notin DOMAIN disk /\ InLoop') =>
             PagesApart(book')
       /\ (InLoop /\ PagesApart(book)) => PagesApart(book')
       /\ (last'.op = "add_intermediate" /\ last'.pagenum \in DOMAIN book.pages) =>
             (book' = book /\ "error" \in DOMAIN out')
       /\ (last'.op = "page_switch" /\ has_intermediate(book, last'.pagenum)) =>
             (book' = book /\ cur_page' = cur_page /\ "error" \in DOMAIN out')]_vars

\* page_switch refused the id of an intermediate in a book that the driver
\* created.
C24_Witness ==
    /\ last.op = "page_switch" /\ last.name = "s1"
    /\ book.title = "New"
    /\ has_intermediate(book, last.pagenum)
    /\ "error" \in DOMAIN out /\ out.error = "intermediate"

\* C25: the current page is always a page of the book: delete_page refuses
\* the current page, and a page creation that the user cancels leaves the
\* current page as it was.
C25_CurrentPageExists ==
    [][/\ InLoop' => cur_page' \in DOMAIN book'.pages
       /\ (last'.op = "delete_page" /\ last'.pagenum = cur_page) =>
             (book' = book /\ cur_page' = cur_page /\ "error" \in DOMAIN out')
       /\ (last'.op = "page_switch" /\ last'.name = ""
             /\ last'.pagenum \notin DOMAIN book.pages) =>
             (book' = book /\ cur_page' = cur_page)]_vars

\* delete_page refused the current page although the book has another.
C25_Witness ==
    /\ last.op = "delete_page" /\ last.pagenum = cur_page
    /\ "error" \in DOMAIN out /\ out.error = "current"
    /\ Cardinality(DOMAIN book.pages) >= 2

\* C26: from the moment the main loop is entered the book has at least one
\* page and one character, so no save of the driver raises the exception
\* of an empty book; the first save of a new book happens only after a
\* character and page 1 exist.
C26_DriverNeverEmpty ==
    [][/\ InLoop' => (DOMAIN book'.pages # {} /\ DOMAIN book'.characters # {})
       /\ last'.op = "save" => (err' = NoExc /\ filename \in DOMAIN disk')
       /\ (last.op = "init" /\ disk' # disk) =>
             (DOMAIN book'.characters # {} /\ IntId(1) \in DOMAIN book'.pages
                /\ disk'[filename] = YamlFile(get_savedict(heap', book').dict))]_vars

\* The driver saved a loaded book that delete_page had left with one page.
C26_Witness ==
    /\ last.op = "save" /\ err = NoExc
    /\ Cardinality(DOMAIN book.pages) = 1
    /\ book.title = "Test"
    /\ disk[filename] = YamlFile(get_savedict(heap, book).dict)


\* C27: page 1, which the driver makes the current page when it opens a
\* book, is still a page of the book after any sequence of commands, so
\* the file of every save loads and has its page 1.
C27_PageOneKept ==
    InLoop =>
        /\ IntId(1) \in DOMAIN book.pages
        /\ filename \in DOMAIN disk =>
              \E r \in {Book_load(disk, filename)} :
                  r.exc = NoExc /\ IntId(1) \in DOMAIN r.book.pages


\* C28: list_pages lists every intermediate id exactly once, inline with
\* the pages in ascending order of the ids: an intermediate smaller than a
\* page id comes before that page, and one greater than the largest page
\* id comes once after the last page.
C28_ListsIntermediatesOnce ==
    (last.op = "list_pages" /\ "lines" \in DOMAIN out) =>
        /\ \A x \in DOMAIN book.intermediates :
              Cardinality({k \in DOMAIN out.lines : out.lines[k] = InterLine(x)}) = 1
        /\ \A i, j \in DOMAIN out.lines :
              i < j => IdLess(out.lines[i].pagenum, out.lines[j].pagenum)


\* The book with the ids of I, and no others, marked as intermediates.
WithIntermediates(b, I) == [b EXCEPT !.intermediates = [x \in I |-> TRUE]]

\* C29: the export does not depend on the intermediates: a book that
\* differs only in its intermediates gives the same nodes, labels, styles
\* and edges, and a choice target that is an intermediate but no page is
\* an unvisited node like any target without a page.
C29_ExportIgnoresIntermediates ==
    (last.op = "export_dot" /\ err = NoExc) =>
        /\ \A I \in SUBSET ExportIds :
              export_dot(heap, WithIntermediates(book, I), DictDel(disk, last.path),
                         last.path, "").disk[last.path] = disk[last.path]
        /\ \A p \in DOMAIN book.pages : \A t \in DOMAIN book.pages[p].choices :
              (has_intermediate(book, t) /\ t \notin DOMAIN book.pages) =>
                  \E k \in DOMAIN disk[last.path].nodes :
                      /\ disk[last.path].nodes[k].pagenum = t
                      /\ \E q \in DOMAIN book.pages :
                            /\ t \in DOMAIN book.pages[q].choices
                            /\ disk[last.path].nodes[k].label =
                                  UnvisitedLabel(book.pages[q].choices[t])

\* A book was exported in which the target of a choice is an intermediate
\* and no page.
C29_Witness ==
    /\ last.op = "export_dot" /\ err = NoExc
    /\ \E p \in DOMAIN book.pages : \E t \in DOMAIN book.pages[p].choices :
          /\ has_intermediate(book, t) /\ t \notin DOMAIN book.pages
          /\ \E k \in DOMAIN disk[last.path].nodes :
                /\ disk[last.path].nodes[k].pagenum = t
                /\ disk[last.path].nodes[k].label.form = "italic"

====
